---- MODULE Spec2Model ----
(***************************************************************************)
(* Confidence calibration of the crop disease classifier:                  *)
(* ai_model/confidence_calibration.py, class ConfidenceCalibrator.         *)
(*                                                                         *)
(* Numbers.  A float is modelled by an exact rational <<n, d>> (d > 0, in  *)
(* lowest terms).  Raw probabilities lie on the grid k/Unit; the bin       *)
(* boundaries np.linspace(0, 1, n_bins + 1) are the rationals k/n_bins.    *)
(* Arrays carry their shape, because the code's failures are shape         *)
(* failures: [rank, rows, cols, a].                                        *)
(***************************************************************************)
EXTENDS Integers, Sequences, FiniteSets, TLC

----------------------------------------------------------------------------
(* Program constants and model bounds *)

\* n_bins default of _calculate_ece
EceBins == 15

\* n_bins default of _calculate_reliability
ReliabilityBins == 10

\* most samples (rows) of a probability matrix evaluate_calibration is applied to
MaxSamples == 2

\* denominator of the grid of raw probabilities: every boundary of both
\* binnings (k/15 and k/10) is a grid point
Unit == 2 * EceBins

----------------------------------------------------------------------------
(* Exact rationals *)

RECURSIVE GCD(_, _)
GCD(a, b) == IF b = 0 THEN a ELSE GCD(b, a % b)

Abs(x) == IF x < 0 THEN -x ELSE x

Rat(n, d) ==
  LET g == GCD(Abs(n), d) IN IF n = 0 THEN <<0, 1>> ELSE <<n \div g, d \div g>>

RatAdd(x, y) ==
  LET g == GCD(x[2], y[2])
  IN Rat(x[1] * (y[2] \div g) + y[1] * (x[2] \div g), (x[2] \div g) * y[2])

RatNeg(x) == <<-x[1], x[2]>>

RatSub(x, y) == RatAdd(x, RatNeg(y))

RatAbs(x) == <<Abs(x[1]), x[2]>>

RatMul(x, y) ==
  LET a == Rat(x[1], y[2])
      b == Rat(y[1], x[2])
  IN <<a[1] * b[1], a[2] * b[2]>>

\* x / k for an integer k > 0
RatDivInt(x, k) == RatMul(x, <<1, k>>)

RatOfInt(k) == <<k, 1>>

RatLe(x, y) == x[1] * y[2] <= y[1] * x[2]

RatLt(x, y) == x[1] * y[2] < y[1] * x[2]

\* the sum, and the product, of the entries lo..hi of a sequence, by halves
RECURSIVE RatSumRange(_, _, _)
RatSumRange(s, lo, hi) ==
  IF lo > hi THEN <<0, 1>>
  ELSE IF lo = hi THEN s[lo]
  ELSE LET mid == (lo + hi) \div 2
       IN RatAdd(RatSumRange(s, lo, mid), RatSumRange(s, mid + 1, hi))

RECURSIVE IntSumRange(_, _, _)
IntSumRange(s, lo, hi) ==
  IF lo > hi THEN 0
  ELSE IF lo = hi THEN s[lo]
  ELSE LET mid == (lo + hi) \div 2
       IN IntSumRange(s, lo, mid) + IntSumRange(s, mid + 1, hi)

RECURSIVE RatProductRange(_, _, _)
RatProductRange(s, lo, hi) ==
  IF lo > hi THEN <<1, 1>>
  ELSE IF lo = hi THEN s[lo]
  ELSE LET mid == (lo + hi) \div 2
       IN RatMul(RatProductRange(s, lo, mid), RatProductRange(s, mid + 1, hi))

RatSum(s) == RatSumRange(s, 1, Len(s))

IntSum(s) == IntSumRange(s, 1, Len(s))

----------------------------------------------------------------------------
(* Arrays with their shape *)

\* an N x C array from a sequence of N rows, each of C entries
Matrix(rowSeq, c) == [rank |-> 2, rows |-> Len(rowSeq), cols |-> c, a |-> rowSeq]

\* an N-vector
Vector(entries) == [rank |-> 1, rows |-> Len(entries), cols |-> 0, a |-> entries]

\* np.argmax along axis 1 of one row: the first index of the maximum, 0-based
ArgMaxRow(row) ==
  (CHOOSE j \in 1..Len(row) :
      /\ \A k \in 1..Len(row) : row[k] <= row[j]
      /\ \A k \in 1..(j - 1) : row[k] < row[j]) - 1

----------------------------------------------------------------------------
(* Metric engine: evaluate_calibration and its helpers *)

\* in_bin of one entry p for bin k (0-based) of n_bins:
\* bin_lower = k/n_bins <= p  and  p < bin_upper = (k+1)/n_bins
InBin(p, k, n_bins) ==
  /\ RatLe(<<k, n_bins>>, p)
  /\ RatLt(p, <<k + 1, n_bins>>)

\* y_true[in_bin] with a rank-2 boolean mask: numpy raises IndexError unless
\* y_true has the mask's shape
MaskIndexOk(proba, y_true) ==
  /\ y_true.rank = 2
  /\ y_true.rows = proba.rows
  /\ y_true.cols = proba.cols

\* the number of entries and the entry at the 1-based row-major position e
Size(m) == m.rows * m.cols

Entry(m, e) == m.a[((e - 1) \div m.cols) + 1][((e - 1) % m.cols) + 1]

\* np.sum(in_bin): the entries of proba among the first e that fall into bin k
CountInBin(proba, k, n_bins, e) ==
  IntSum([i \in 1..e |-> IF InBin(Entry(proba, i), k, n_bins) THEN 1 ELSE 0])

\* np.sum(y_true[in_bin]) over the first e positions; the labels are integers
SumLabelsInBin(proba, y_true, k, n_bins, e) ==
  IntSum([i \in 1..e |->
            IF InBin(Entry(proba, i), k, n_bins) THEN Entry(y_true, i) ELSE 0])

\* the sum behind np.mean(y_pred_proba[in_bin]) over the first e positions
SumProbaInBin(proba, k, n_bins, e) ==
  RatSum([i \in 1..e |->
            IF InBin(Entry(proba, i), k, n_bins) THEN Entry(proba, i) ELSE <<0, 1>>])

\* one turn of the loop over the bins: bin_size, and for a non-empty bin
\* bin_accuracy and bin_confidence, or the IndexError of the mask index
BinStat(proba, y_true, k, n_bins) ==
  LET bin_size == CountInBin(proba, k, n_bins, Size(proba))
  IN IF bin_size = 0
     THEN [exc |-> "none", bin_size |-> 0,
           bin_accuracy |-> <<0, 1>>, bin_confidence |-> <<0, 1>>]
     ELSE IF ~MaskIndexOk(proba, y_true)
     THEN [exc |-> "IndexError", bin_size |-> bin_size,
           bin_accuracy |-> <<0, 1>>, bin_confidence |-> <<0, 1>>]
     ELSE [exc |-> "none", bin_size |-> bin_size,
           bin_accuracy |->
              Rat(SumLabelsInBin(proba, y_true, k, n_bins, Size(proba)), bin_size),
           bin_confidence |->
              RatDivInt(SumProbaInBin(proba, k, n_bins, Size(proba)), bin_size)]

\* the loop of _calculate_reliability from bin k on: the three parallel lists
\* grow by one entry per non-empty bin
RECURSIVE ReliabilityLoop(_, _, _, _, _)
ReliabilityLoop(proba, y_true, k, n_bins, lists) ==
  IF k = n_bins THEN lists
  ELSE LET s == BinStat(proba, y_true, k, n_bins)
       IN IF s.exc # "none"
          THEN [exc |-> s.exc, accuracies |-> <<>>, confidences |-> <<>>,
                bin_sizes |-> <<>>]
          ELSE IF s.bin_size = 0
          THEN ReliabilityLoop(proba, y_true, k + 1, n_bins, lists)
          ELSE ReliabilityLoop(proba, y_true, k + 1, n_bins,
                 [exc |-> "none",
                  accuracies |-> Append(lists.accuracies, s.bin_accuracy),
                  confidences |-> Append(lists.confidences, s.bin_confidence),
                  bin_sizes |-> Append(lists.bin_sizes, s.bin_size)])

\* _calculate_reliability
CalculateReliability(proba, y_true, n_bins) ==
  ReliabilityLoop(proba, y_true, 0, n_bins,
                  [exc |-> "none", accuracies |-> <<>>, confidences |-> <<>>,
                   bin_sizes |-> <<>>])

\* the loop of _calculate_ece from bin k on:
\* ece += bin_size * |bin_accuracy - bin_confidence| for each non-empty bin
RECURSIVE EceLoop(_, _, _, _, _)
EceLoop(proba, y_true, k, n_bins, ece) ==
  IF k = n_bins THEN [exc |-> "none", ece |-> ece]
  ELSE LET s == BinStat(proba, y_true, k, n_bins)
       IN IF s.exc # "none" THEN [exc |-> s.exc, ece |-> <<0, 1>>]
          ELSE IF s.bin_size = 0 THEN EceLoop(proba, y_true, k + 1, n_bins, ece)
          ELSE EceLoop(proba, y_true, k + 1, n_bins,
                 RatAdd(ece, RatMul(RatOfInt(s.bin_size),
                                    RatAbs(RatSub(s.bin_accuracy, s.bin_confidence)))))

\* _calculate_ece: the loop's sum divided by len(y_pred_proba), the number of
\* rows
CalculateEce(proba, y_true, n_bins) ==
  LET loop == EceLoop(proba, y_true, 0, n_bins, <<0, 1>>)
  IN IF loop.exc # "none" THEN loop
     ELSE IF proba.rows = 0 THEN [exc |-> "ZeroDivisionError", ece |-> <<0, 1>>]
     ELSE [exc |-> "none", ece |-> RatDivInt(loop.ece, proba.rows)]

\* the mean of the differences, not of their squares: the variant of
\* BrierScoreLoss that forgets the square
BrierScoreLossSigned(proba, y_true, i) ==
  LET pcol == [r \in 1..proba.rows |-> proba.a[r][i]]
      ycol == [r \in 1..y_true.rows |-> y_true.a[r][i]]
  IN IF y_true.rank # 2 \/ i > y_true.cols
     THEN [exc |-> "IndexError", brier |-> <<0, 1>>]
     ELSE IF y_true.rows # proba.rows \/ proba.rows = 0
     THEN [exc |-> "ValueError", brier |-> <<0, 1>>]
     ELSE [exc |-> "none",
           brier |-> RatDivInt(RatSum([r \in 1..proba.rows |->
                                         RatSub(pcol[r], RatOfInt(ycol[r]))]),
                               proba.rows)]

\* brier_score_loss(y_true[:, i], y_pred_proba[:, i]) for the 1-based column i.
\* The column index fails on a rank-1 y_true or a missing column; sklearn
\* rejects unequal lengths, an empty column, labels outside {0, 1} and
\* probabilities outside [0, 1]; the score is the mean squared difference.
BrierScoreLoss(proba, y_true, i) ==
  LET pcol == [r \in 1..proba.rows |-> proba.a[r][i]]
      ycol == [r \in 1..y_true.rows |-> y_true.a[r][i]]
      sq(r) == RatMul(RatSub(pcol[r], RatOfInt(ycol[r])),
                      RatSub(pcol[r], RatOfInt(ycol[r])))
  IN IF y_true.rank # 2 \/ i > y_true.cols
     THEN [exc |-> "IndexError", brier |-> <<0, 1>>]
     ELSE IF \/ y_true.rows # proba.rows
             \/ proba.rows = 0
             \/ \E r \in 1..y_true.rows : ycol[r] \notin {0, 1}
             \/ \E r \in 1..proba.rows :
                   RatLt(pcol[r], <<0, 1>>) \/ RatLt(<<1, 1>>, pcol[r])
     THEN [exc |-> "ValueError", brier |-> <<0, 1>>]
     ELSE [exc |-> "none",
           brier |-> RatDivInt(RatSum([r \in 1..proba.rows |-> sq(r)]), proba.rows)]

\* the loop over the classes from column i on: brier_scores grows by one score
\* per class; the first exception ends it
RECURSIVE BrierLoop(_, _, _, _)
BrierLoop(proba, y_true, i, brier_scores) ==
  IF i > proba.cols THEN [exc |-> "none", brier_scores |-> brier_scores]
  ELSE LET b == BrierScoreLoss(proba, y_true, i)
       IN IF b.exc # "none" THEN [exc |-> b.exc, brier_scores |-> <<>>]
          ELSE BrierLoop(proba, y_true, i + 1, Append(brier_scores, b.brier))

NoMetrics(exc) ==
  [exc |-> exc, brier_score |-> <<0, 1>>, brier_scores_per_class |-> <<>>,
   ece |-> <<0, 1>>, reliability |-> [accuracies |-> <<>>, confidences |-> <<>>,
                                      bin_sizes |-> <<>>]]

\* np.sum(brier_scores): the variant of EvaluateCalibration whose overall
\* Brier score is the sum over the classes
EvaluateCalibrationSummingBrier(proba, y_true) ==
  LET b == BrierLoop(proba, y_true, 1, <<>>)
      e == CalculateEce(proba, y_true, EceBins)
      rel == CalculateReliability(proba, y_true, ReliabilityBins)
  IN IF b.exc # "none" THEN NoMetrics(b.exc)
     ELSE IF e.exc # "none" THEN NoMetrics(e.exc)
     ELSE IF rel.exc # "none" THEN NoMetrics(rel.exc)
     ELSE [exc |-> "none",
           brier_score |-> RatSum(b.brier_scores),
           brier_scores_per_class |-> b.brier_scores,
           ece |-> e.ece,
           reliability |-> [accuracies |-> rel.accuracies,
                            confidences |-> rel.confidences,
                            bin_sizes |-> rel.bin_sizes]]

\* evaluate_calibration: Brier score per class and its mean, ECE with the
\* default 15 bins, reliability data with the default 10 bins
EvaluateCalibration(proba, y_true) ==
  LET b == BrierLoop(proba, y_true, 1, <<>>)
      e == CalculateEce(proba, y_true, EceBins)
      rel == CalculateReliability(proba, y_true, ReliabilityBins)
  IN IF b.exc # "none" THEN NoMetrics(b.exc)
     ELSE IF e.exc # "none" THEN NoMetrics(e.exc)
     ELSE IF rel.exc # "none" THEN NoMetrics(rel.exc)
     ELSE [exc |-> "none",
           brier_score |-> RatDivInt(RatSum(b.brier_scores), proba.cols),
           brier_scores_per_class |-> b.brier_scores,
           ece |-> e.ece,
           reliability |-> [accuracies |-> rel.accuracies,
                            confidences |-> rel.confidences,
                            bin_sizes |-> rel.bin_sizes]]

----------------------------------------------------------------------------
(* Temperature scaling, Platt scaling, isotonic calibration *)

\* shapes numpy can broadcast in y_true * np.log(scaled_proba + 1e-8)
Broadcastable(proba, y_true) ==
  IF y_true.rank = 1
  THEN y_true.rows = proba.cols \/ y_true.rows = 1 \/ proba.cols = 1
  ELSE /\ y_true.rank = 2
       /\ (y_true.rows = proba.rows \/ y_true.rows = 1 \/ proba.rows = 1)
       /\ (y_true.cols = proba.cols \/ y_true.cols = 1 \/ proba.cols = 1)

\* p ** m for an integer m >= 1
RECURSIVE RatPow(_, _)
RatPow(p, m) == IF m = 1 THEN p ELSE RatMul(p, RatPow(p, m - 1))

\* _softmax(np.log(row + 1e-8) / temperature) of one row, for a temperature
\* 1/m: entry ** m over the sum of the row's entries ** m.  The 1e-8 floor is
\* below the model's resolution except in an all-zero row, which it makes
\* uniform.
ScaleRow(row, temperature) ==
  LET m == temperature[2]
      powers == [j \in DOMAIN row |-> RatPow(row[j], m)]
      total == RatSum(powers)
  IN IF total[1] = 0 THEN [j \in DOMAIN row |-> <<1, Len(row)>>]
     ELSE [j \in DOMAIN row |-> RatMul(powers[j], <<total[2], total[1]>>)]

\* _apply_temperature_scaling
ApplyTemperatureScaling(proba, temperature) ==
  Matrix([r \in 1..proba.rows |-> ScaleRow(proba.a[r], temperature)], proba.cols)

\* minimize(objective, x0=1.0, bounds=[(0.1, 10.0)]): the start and the box
StartTemperature == <<1, 1>>

TemperatureBounds == [lower |-> <<1, 10>>, upper |-> <<10, 1>>]

InBounds(x) == RatLe(TemperatureBounds.lower, x) /\ RatLe(x, TemperatureBounds.upper)

\* y_true[r][j] as numpy broadcasts y_true against the N x C array
LabelAt(y_true, r, j) ==
  IF y_true.rank = 1 THEN y_true.a[IF y_true.rows = 1 THEN 1 ELSE j]
  ELSE y_true.a[IF y_true.rows = 1 THEN 1 ELSE r][IF y_true.cols = 1 THEN 1 ELSE j]

\* the objective is a number: with no sample np.mean is nan, with a negative
\* entry np.log is nan
ObjectiveDefined(proba) ==
  /\ proba.rows >= 1
  /\ \A r \in 1..proba.rows : \A j \in 1..proba.cols : RatLe(<<0, 1>>, proba.a[r][j])

\* exp(-N * objective(temperature)): the product over the samples and classes
\* of scaled_proba ** y_true.  The objective at s is no greater than at t
\* exactly when the likelihood at s is no less than at t.
LikelihoodUpTo(proba, y_true, temperature, e) ==
  LET scaled == ApplyTemperatureScaling(proba, temperature)
  IN RatProductRange(
       [i \in 1..e |->
          LET r == ((i - 1) \div proba.cols) + 1
              j == ((i - 1) % proba.cols) + 1
              y == LabelAt(y_true, r, j)
          IN IF y = 0 THEN <<1, 1>> ELSE RatPow(scaled.a[r][j], y)],
       1, e)

Likelihood(proba, y_true, temperature) ==
  LikelihoodUpTo(proba, y_true, temperature, Size(proba))

\* the optimizer moves from x0 to the trial point only downhill: the trial's
\* objective is no greater than the start's.  (A start of likelihood 0 lies
\* in the range the 1e-8 floor decides; no trial is taken from there.)
Downhill(proba, y_true, trial) ==
  /\ ObjectiveDefined(proba)
  /\ RatLt(<<0, 1>>, Likelihood(proba, y_true, StartTemperature))
  /\ RatLe(Likelihood(proba, y_true, StartTemperature),
           Likelihood(proba, y_true, trial))

\* minimize without bounds: the variant of TemperatureScaling that takes a
\* trial point outside the box
TemperatureScalingUnbounded(proba, y_true, found) ==
  IF ~Broadcastable(proba, y_true)
  THEN [exc |-> "ValueError", temperature |-> StartTemperature]
  ELSE IF ~InBounds(found.x) \/ Downhill(proba, y_true, found.x)
  THEN [exc |-> "none", temperature |-> found.x]
  ELSE [exc |-> "none", temperature |-> StartTemperature]

\* the trial point returned without comparing objectives: the variant of
\* TemperatureScaling that may end uphill of the start
TemperatureScalingUphill(proba, y_true, found) ==
  IF ~Broadcastable(proba, y_true)
  THEN [exc |-> "ValueError", temperature |-> StartTemperature]
  ELSE IF InBounds(found.x)
  THEN [exc |-> "none", temperature |-> found.x]
  ELSE [exc |-> "none", temperature |-> StartTemperature]

\* temperature_scaling: an exception of the objective passes through
\* minimize; otherwise minimize answers with an OptimizeResult `found` whose
\* x is the trial point if that lies in the box and downhill of x0 = 1.0, and
\* x0 itself if not; result.x[0] is returned, result.success is not read
TemperatureScaling(proba, y_true, found) ==
  IF ~Broadcastable(proba, y_true)
  THEN [exc |-> "ValueError", temperature |-> StartTemperature]
  ELSE IF InBounds(found.x) /\ Downhill(proba, y_true, found.x)
  THEN [exc |-> "none", temperature |-> found.x]
  ELSE [exc |-> "none", temperature |-> StartTemperature]

\* platt_scaling: np.argmax(y_true, axis=1) needs a second axis; LogisticRegression
\* rejects an empty sample, unequal lengths and a target with a single class;
\* `found` is the (coef_[0][0], intercept_[0]) of the fitted regression
PlattTarget(y_true) == [r \in 1..y_true.rows |-> ArgMaxRow(y_true.a[r])]

\* np.max(y_pred_proba, axis=1, keepdims=True): the largest entry of each row
MaxRow(row) == CHOOSE p \in {row[j] : j \in DOMAIN row} :
                 \A j \in DOMAIN row : RatLe(row[j], p)

\* np.argmax of one row of probabilities: the first index of the maximum,
\* 0-based
ArgMaxProbaRow(row) ==
  (CHOOSE j \in 1..Len(row) :
      /\ \A k \in 1..Len(row) : RatLe(row[k], row[j])
      /\ \A k \in 1..(j - 1) : RatLt(row[k], row[j])) - 1

PlattFeature(proba) == [r \in 1..proba.rows |-> MaxRow(proba.a[r])]

\* the arguments of lr.fit
PlattFit(proba, y_true) ==
  [y_pred_max |-> PlattFeature(proba), target |-> PlattTarget(y_true)]

\* the binary target of the Platt fit as the index of the maximum matching
\* the true class: 1 where np.argmax of the probabilities is the true class
Correctness(proba, y_true) ==
  [r \in 1..y_true.rows |->
     IF ArgMaxProbaRow(proba.a[r]) = ArgMaxRow(y_true.a[r]) THEN 1 ELSE 0]

\* degenerate data of a Platt fit: at least one sample, and every maximum
\* probability the same or every sample's correctness the same
PlattDegenerate(proba, y_true) ==
  /\ proba.rows >= 1
  /\ y_true.rank = 2
  /\ y_true.rows = proba.rows
  /\ \/ Cardinality({PlattFeature(proba)[r] : r \in 1..proba.rows}) = 1
     \/ Cardinality({Correctness(proba, y_true)[r] : r \in 1..proba.rows}) = 1

PlattScaling(proba, y_true, found) ==
  IF y_true.rank # 2 \/ y_true.cols = 0 \/ proba.cols = 0
  THEN [exc |-> "ValueError", platt_a |-> <<0, 1>>, platt_b |-> <<0, 1>>,
        fit |-> [none |-> TRUE]]
  ELSE IF \/ proba.rows = 0
          \/ proba.rows # y_true.rows
          \/ Cardinality({PlattTarget(y_true)[r] : r \in 1..y_true.rows}) < 2
  THEN [exc |-> "ValueError", platt_a |-> <<0, 1>>, platt_b |-> <<0, 1>>,
        fit |-> PlattFit(proba, y_true)]
  ELSE [exc |-> "none", platt_a |-> found[1], platt_b |-> found[2],
        fit |-> PlattFit(proba, y_true)]

\* np.max(y_true, axis=1) of one label row
MaxLabel(row) ==
  CHOOSE v \in {row[j] : j \in DOMAIN row} : \A j \in DOMAIN row : row[j] <= v

\* the values of a set of rationals in increasing order
RECURSIVE SortedValues(_)
SortedValues(S) ==
  IF S = {} THEN <<>>
  ELSE LET m == CHOOSE x \in S : \A y \in S : RatLe(x, y)
       IN <<m>> \o SortedValues(S \ {m})

\* IsotonicRegression sorts the samples by feature and keeps one point per
\* distinct feature value: its weight is the number of samples there, its
\* target their mean (total / weight)
MakeUnique(xs, ys) ==
  LET values == SortedValues({xs[r] : r \in DOMAIN xs})
  IN [u \in DOMAIN values |->
        [x |-> values[u],
         weight |-> Cardinality({r \in DOMAIN xs : xs[r] = values[u]}),
         total |-> IntSum([r \in DOMAIN xs |->
                             IF xs[r] = values[u] THEN ys[r] ELSE 0])]]

\* a block of adjacent points that share one fitted value, their weighted mean
BlockMean(b) == Rat(b.total, b.weight)

MergeBlocks(b, c) ==
  [total |-> b.total + c.total, weight |-> b.weight + c.weight,
   points |-> b.points + c.points]

\* pool adjacent violators: the last block is merged into the one before it
\* as long as that one's mean is the larger
RECURSIVE Pool(_)
Pool(blocks) ==
  LET n == Len(blocks)
  IN IF n >= 2 /\ RatLt(BlockMean(blocks[n]), BlockMean(blocks[n - 1]))
     THEN Pool(Append(SubSeq(blocks, 1, n - 2),
                      MergeBlocks(blocks[n - 1], blocks[n])))
     ELSE blocks

\* the blocks of the first u points
RECURSIVE PoolUpTo(_, _)
PoolUpTo(points, u) ==
  IF u = 0 THEN <<>>
  ELSE Pool(Append(PoolUpTo(points, u - 1),
                   [total |-> points[u].total, weight |-> points[u].weight,
                    points |-> 1]))

\* the fitted value of every point, block by block
RECURSIVE BlockValues(_)
BlockValues(blocks) ==
  IF blocks = <<>> THEN <<>>
  ELSE [i \in 1..Head(blocks).points |-> BlockMean(Head(blocks))]
       \o BlockValues(Tail(blocks))

\* the fitted regression: the training range and the knots (X_thresholds_,
\* y_thresholds_), where an interior point between two neighbours of its own
\* value is dropped
IsotonicModel(points, fitted) ==
  LET n == Len(points)
      Keep(u) == \/ u = 1
                 \/ u = n
                 \/ fitted[u] # fitted[u - 1]
                 \/ fitted[u] # fitted[u + 1]
      kept == SelectSeq([u \in 1..n |-> u], Keep)
  IN [X_min |-> points[1].x,
      X_max |-> points[n].x,
      knots |-> [i \in DOMAIN kept |->
                   [x |-> points[kept[i]].x, y |-> fitted[kept[i]]]]]

\* the regression without pooling: the variant of IsotonicRegressionFit that
\* leaves every point at its own mean
IsotonicRegressionFitUnpooled(xs, ys) ==
  LET points == MakeUnique(xs, ys)
  IN IsotonicModel(points, [u \in DOMAIN points |-> BlockMean(points[u])])

\* IsotonicRegression(out_of_bounds='clip').fit(xs, ys), increasing
IsotonicRegressionFit(xs, ys) ==
  LET points == MakeUnique(xs, ys)
  IN IsotonicModel(points, BlockValues(PoolUpTo(points, Len(points))))

\* x / y for a rational y > 0
RatDiv(x, y) == RatMul(x, <<y[2], y[1]>>)

\* np.clip(t, X_min_, X_max_)
Clip(t, lower, upper) ==
  IF RatLt(t, lower) THEN lower ELSE IF RatLt(upper, t) THEN upper ELSE t

\* isotonic.predict of one value: clipped to the training range, then
\* interpolated linearly between the knots around it
IsotonicPredict(isotonic, t) ==
  LET c == Clip(t, isotonic.X_min, isotonic.X_max)
      k == isotonic.knots
  IN IF Len(k) = 1 THEN k[1].y
     ELSE LET i == CHOOSE n \in 1..(Len(k) - 1) :
                     RatLe(k[n].x, c) /\ RatLe(c, k[n + 1].x)
          IN RatAdd(k[i].y,
                    RatMul(RatSub(c, k[i].x),
                           RatDiv(RatSub(k[i + 1].y, k[i].y),
                                  RatSub(k[i + 1].x, k[i].x))))

\* isotonic_calibration: np.max(y_true, axis=1) needs a second axis;
\* IsotonicRegression rejects an empty sample and unequal lengths; the fitted
\* regression is returned
IsotonicCalibration(proba, y_true) ==
  IF y_true.rank # 2 \/ y_true.cols = 0 \/ proba.cols = 0
  THEN [exc |-> "ValueError", isotonic |-> [none |-> TRUE]]
  ELSE IF proba.rows = 0 \/ proba.rows # y_true.rows
  THEN [exc |-> "ValueError", isotonic |-> [none |-> TRUE]]
  ELSE [exc |-> "none",
        isotonic |-> IsotonicRegressionFit(
                       PlattFeature(proba),
                       [r \in 1..y_true.rows |-> MaxLabel(y_true.a[r])])]

----------------------------------------------------------------------------
(* Persistence: save_calibration_params *)

\* the file results/calibration_params.json does not exist
NoFile == << <<"no file">> >>

\* the faults of the file system during one save: none, open() fails, or the
\* write of chunk number at + 1 fails (the chunks before it are in the file)
NoFault == [kind |-> "none", at |-> 0]

OpenFault == [kind |-> "open", at |-> 0]

WriteFault(k) == [kind |-> "write", at |-> k]

\* json.dump(calibration_data, f, indent=2) writes the document in chunks:
\* the opening brace, one chunk per key with its value in insertion order,
\* the closing brace.  A float is written by repr, which reads back as the
\* same float.
JsonChunks(calibration_data, keys) ==
  << <<"{">> >> \o [i \in DOMAIN keys |-> <<keys[i], calibration_data[keys[i]]>>]
                \o << <<"}">> >>

\* what json.load makes of a file's content: the mapping, or "corrupt"
JsonWellFormed(content) ==
  /\ content # NoFile
  /\ Len(content) >= 2
  /\ content[1] = <<"{">>
  /\ content[Len(content)] = <<"}">>
  /\ \A i \in 2..(Len(content) - 1) : Len(content[i]) = 2

JsonParse(content) ==
  IF JsonWellFormed(content)
  THEN [k \in {content[i][1] : i \in 2..(Len(content) - 1)} |->
          LET i == CHOOSE n \in 2..(Len(content) - 1) : content[n][1] = k
          IN content[i][2]]
  ELSE [corrupt |-> TRUE]

\* open(save_path, 'a'): the variant of OpenForWrite that keeps the old content
OpenForAppend(fs, fault) ==
  IF fault.kind = "open" THEN [fs EXCEPT !.exc = "OSError"]
  ELSE [fs EXCEPT !.content = IF @ = NoFile THEN <<>> ELSE @, !.handles = @ + 1]

\* open(save_path, 'w'): on success the file exists, is empty, and a handle
\* is open; on failure nothing changes
OpenForWrite(fs, fault) ==
  IF fault.kind = "open" THEN [fs EXCEPT !.exc = "OSError"]
  ELSE [fs EXCEPT !.content = <<>>, !.handles = @ + 1]

\* the writes of json.dump at the end of the open file: every chunk, or the
\* chunks before the failing write
DumpChunks(fs, chunks, fault) ==
  IF fault.kind = "write" /\ fault.at < Len(chunks)
  THEN [fs EXCEPT !.content = @ \o SubSeq(chunks, 1, fault.at), !.exc = "OSError"]
  ELSE [fs EXCEPT !.content = @ \o chunks]

\* f.close() after json.dump without a with block: the variant of WithExit
\* that skips the close when the dump raised
WithExitOnSuccess(fs) ==
  IF fs.exc = "none" THEN [fs EXCEPT !.handles = @ - 1] ELSE fs

\* leaving the with block closes the handle, with or without an exception
WithExit(fs) == [fs EXCEPT !.handles = @ - 1]

\* the dictionary save_calibration_params serializes
CalibrationData(params, history) ==
  [temperature |-> params.temperature,
   platt_a |-> params.platt_a,
   platt_b |-> params.platt_b,
   calibration_history |-> history]

DocumentKeys == <<"temperature", "platt_a", "platt_b", "calibration_history">>

\* save_calibration_params on the file system state fs = [content, handles, exc]
SaveCalibrationParams(fs, params, history, fault) ==
  LET opened == OpenForWrite(fs, fault)
  IN IF opened.exc # "none" THEN opened
     ELSE WithExit(DumpChunks(opened,
                              JsonChunks(CalibrationData(params, history), DocumentKeys),
                              fault))

----------------------------------------------------------------------------
(* Plotting: the part of plot_calibration_curves that can fail *)

\* MODEL_CONFIG['class_names'] has 34 entries; the first 33 contain the
\* separator '___', the last one ("Not_a_Plant") does not
NumClassNames == 34

NamesWithSeparator == 33

\* MODEL_CONFIG['class_names'][i].split('___')[1] for the 0-based class i
ClassNameExc(i) ==
  IF i >= NumClassNames THEN "IndexError"
  ELSE IF i >= NamesWithSeparator THEN "IndexError"
  ELSE "none"

\* the loop over the classes from column i on: brier_score_loss, then the
\* class name; the first exception ends it
RECURSIVE PlotClassLoopExc(_, _, _)
PlotClassLoopExc(proba, y_true, i) ==
  IF i > proba.cols THEN "none"
  ELSE LET b == BrierScoreLoss(proba, y_true, i)
       IN IF b.exc # "none" THEN b.exc
          ELSE IF ClassNameExc(i - 1) # "none" THEN ClassNameExc(i - 1)
          ELSE PlotClassLoopExc(proba, y_true, i + 1)

\* plot_calibration_curves: reliability data, the loop over the classes,
\* np.max(y_true, axis=1), then savefig, which can fail in the environment
PlotCalibrationCurves(proba, y_true, savefig_ok) ==
  LET rel == CalculateReliability(proba, y_true, ReliabilityBins)
      loop == PlotClassLoopExc(proba, y_true, 1)
  IN IF rel.exc # "none" THEN rel.exc
     ELSE IF loop # "none" THEN loop
     ELSE IF y_true.rank # 2 THEN "ValueError"
     ELSE IF ~savefig_ok THEN "OSError"
     ELSE "none"

----------------------------------------------------------------------------
(* Orchestration: the statements of calibrate_model *)

\* prepare_calibration_data: np.argmax(y_val, axis=1).  A rank-2 y_val (N x C
\* one-hot) gives the N-vector of class indices; a rank-3 y_val (N x K x C)
\* gives the N x C array of the plane holding each column's maximum.
ArgMaxAxis1(y_val) ==
  IF y_val.rank = 2
  THEN Vector([r \in 1..y_val.rows |-> ArgMaxRow(y_val.a[r])])
  ELSE Matrix([r \in 1..y_val.rows |->
                 [j \in 1..y_val.cols |->
                    ArgMaxRow([k \in DOMAIN y_val.a[r] |-> y_val.a[r][k][j]])]],
              y_val.cols)

None == [none |-> TRUE]

\* the frame of one calibrate_model call: the calibrator's fields, the file,
\* the locals, the pending exception and the steps begun so far
Frame(loaded, params, history, content, open_handles) ==
  [model |-> loaded, params |-> params, history |-> history,
   fs |-> [content |-> content, handles |-> open_handles, exc |-> "none"],
   exc |-> "none", steps |-> <<>>,
   y_pred_proba |-> None, y_true_binary |-> None,
   original_metrics |-> None, optimal_temp |-> None,
   temp_scaled_proba |-> None, temp_metrics |-> None, result |-> None,
   report |-> None]

Begin(f, step) == [f EXCEPT !.steps = Append(@, step)]

\* load_model called unconditionally: the variant of StepLoadModel that loads
\* the model again when one is loaded
StepLoadModelAlways(f, load_ok) ==
  IF load_ok THEN [Begin(f, "load_model") EXCEPT !.model = TRUE]
  ELSE [Begin(f, "load_model") EXCEPT !.exc = "OSError"]

\* lines 264-266: load the model if none is loaded
StepLoadModel(f, load_ok) ==
  IF f.model THEN f
  ELSE IF load_ok THEN [Begin(f, "load_model") EXCEPT !.model = TRUE]
  ELSE [Begin(f, "load_model") EXCEPT !.exc = "OSError"]

\* line 269: predictions is what model.predict answers for X_val
StepPrepare(f, predictions, y_val) ==
  IF f.exc # "none" THEN f
  ELSE [Begin(f, "prepare_calibration_data") EXCEPT
          !.y_pred_proba = predictions,
          !.y_true_binary = ArgMaxAxis1(y_val)]

\* line 273
StepEvaluateOriginal(f) ==
  IF f.exc # "none" THEN f
  ELSE LET m == EvaluateCalibration(f.y_pred_proba, f.y_true_binary)
       IN [Begin(f, "evaluate_original") EXCEPT
             !.exc = m.exc,
             !.original_metrics = IF m.exc = "none" THEN m ELSE None]

\* lines 277-278
StepTemperature(f, found) ==
  IF f.exc # "none" THEN f
  ELSE LET t == TemperatureScaling(f.y_pred_proba, f.y_true_binary, found)
       IN IF t.exc # "none"
          THEN [Begin(f, "temperature_scaling") EXCEPT !.exc = t.exc]
          ELSE [Begin(f, "temperature_scaling") EXCEPT
                  !.report = found,
                  !.optimal_temp = t.temperature,
                  !.params.temperature = t.temperature]

\* line 281
StepApplyTemperature(f) ==
  IF f.exc # "none" THEN f
  ELSE [Begin(f, "apply_temperature_scaling") EXCEPT
          !.temp_scaled_proba = ApplyTemperatureScaling(f.y_pred_proba, f.optimal_temp)]

\* line 282
StepEvaluateTemperature(f) ==
  IF f.exc # "none" THEN f
  ELSE LET m == EvaluateCalibration(f.temp_scaled_proba, f.y_true_binary)
       IN [Begin(f, "evaluate_temperature") EXCEPT
             !.exc = m.exc,
             !.temp_metrics = IF m.exc = "none" THEN m ELSE None]

\* the Platt fit composed into the reported metrics: the variant of StepPlatt
\* that evaluates the temperature metrics again on probabilities rescaled
\* with the fitted slope
StepPlattComposed(f, found) ==
  IF f.exc # "none" THEN f
  ELSE LET p == PlattScaling(f.y_pred_proba, f.y_true_binary, found)
           m == EvaluateCalibration(
                  ApplyTemperatureScaling(f.y_pred_proba, <<1, Abs(found[1][1])>>),
                  f.y_true_binary)
       IN IF p.exc # "none"
          THEN [Begin(f, "platt_scaling") EXCEPT !.exc = p.exc]
          ELSE [Begin(f, "platt_scaling") EXCEPT
                  !.params.platt_a = p.platt_a,
                  !.params.platt_b = p.platt_b,
                  !.temp_metrics = m]

\* lines 286-288
StepPlatt(f, found) ==
  IF f.exc # "none" THEN f
  ELSE LET p == PlattScaling(f.y_pred_proba, f.y_true_binary, found)
       IN IF p.exc # "none"
          THEN [Begin(f, "platt_scaling") EXCEPT !.exc = p.exc]
          ELSE [Begin(f, "platt_scaling") EXCEPT
                  !.params.platt_a = p.platt_a,
                  !.params.platt_b = p.platt_b]

\* line 292
StepIsotonic(f) ==
  IF f.exc # "none" THEN f
  ELSE [Begin(f, "isotonic_calibration") EXCEPT
          !.exc = IsotonicCalibration(f.y_pred_proba, f.y_true_binary).exc]

\* the save in a finally clause: the variant of StepSave that persists even
\* when an earlier statement raised
StepSaveAlways(f, fault) ==
  IF fault.kind = "mkdir" THEN [f EXCEPT !.exc = "OSError"]
  ELSE LET saved == SaveCalibrationParams(f.fs, f.params, f.history, fault)
       IN [Begin(f, "save_calibration_params") EXCEPT
             !.fs = [saved EXCEPT !.exc = "none"],
             !.exc = IF f.exc # "none" THEN f.exc ELSE saved.exc]

\* the save moved behind the plot: the variant of StepSave that writes
\* nothing at this point of the run
StepSaveDeferred(f, fault) == f

\* lines 295-298: mkdir of the results directory, then the save
StepSave(f, fault) ==
  IF f.exc # "none" THEN f
  ELSE IF fault.kind = "mkdir" THEN [f EXCEPT !.exc = "OSError"]
  ELSE LET saved == SaveCalibrationParams(f.fs, f.params, f.history, fault)
       IN [Begin(f, "save_calibration_params") EXCEPT
             !.fs = [saved EXCEPT !.exc = "none"],
             !.exc = saved.exc]

\* lines 301-302
StepPlot(f, savefig_ok) ==
  IF f.exc # "none" THEN f
  ELSE [Begin(f, "plot_calibration_curves") EXCEPT
          !.exc = PlotCalibrationCurves(f.y_pred_proba, f.y_true_binary, savefig_ok)]

\* self.calibration_history = [snapshot]: the variant of StepReturn that
\* replaces the history by the snapshot of the run
StepReturnReplacingHistory(f, self) ==
  IF f.exc # "none" THEN f
  ELSE [Begin(f, "return") EXCEPT
          !.history = <<[metrics |-> f.temp_metrics, params |-> f.params]>>,
          !.result =
             [original_metrics |-> f.original_metrics,
              temperature_metrics |-> f.temp_metrics,
              calibration_params |-> [params_of |-> self],
              improvement |->
                [brier_score |-> RatSub(f.original_metrics.brier_score,
                                        f.temp_metrics.brier_score),
                 ece |-> RatSub(f.original_metrics.ece, f.temp_metrics.ece)]]]

\* temp_metrics - original_metrics: the variant of StepReturn that reports
\* the improvement with the opposite sign
StepReturnGain(f, self) ==
  IF f.exc # "none" THEN f
  ELSE [Begin(f, "return") EXCEPT
          !.result =
             [original_metrics |-> f.original_metrics,
              temperature_metrics |-> f.temp_metrics,
              calibration_params |-> [params_of |-> self],
              improvement |->
                [brier_score |-> RatSub(f.temp_metrics.brier_score,
                                        f.original_metrics.brier_score),
                 ece |-> RatSub(f.temp_metrics.ece, f.original_metrics.ece)]]]

\* lines 305-319: the result holds the calibrator's own parameter dictionary
\* (a reference to it, not a copy)
StepReturn(f, self) ==
  IF f.exc # "none" THEN f
  ELSE [Begin(f, "return") EXCEPT
          !.result =
             [original_metrics |-> f.original_metrics,
              temperature_metrics |-> f.temp_metrics,
              calibration_params |-> [params_of |-> self],
              improvement |->
                [brier_score |-> RatSub(f.original_metrics.brier_score,
                                        f.temp_metrics.brier_score),
                 ece |-> RatSub(f.original_metrics.ece, f.temp_metrics.ece)]]]

\* the names of the statements of calibrate_model after the model is loaded,
\* in program order
ProgramOrder ==
  <<"prepare_calibration_data", "evaluate_original", "temperature_scaling",
    "apply_temperature_scaling", "evaluate_temperature", "platt_scaling",
    "isotonic_calibration", "save_calibration_params",
    "plot_calibration_curves", "return">>

----------------------------------------------------------------------------
(* Inputs *)

\* a row of raw probabilities from its numerators over Unit
Row(numerators) == [j \in DOMAIN numerators |-> Rat(numerators[j], Unit)]

Proba(rowSeq, c) == Matrix([r \in DOMAIN rowSeq |-> Row(rowSeq[r])], c)

\* the one-hot row of class k (0-based) among c classes
OneHotRow(k, c) == [j \in 1..c |-> IF j = k + 1 THEN 1 ELSE 0]

\* to_categorical: N x C one-hot labels of a sequence of class indices
OneHot(classes, c) == Matrix([r \in DOMAIN classes |-> OneHotRow(classes[r], c)], c)

\* an N x 2 x C array whose argmax along axis 1 is the one-hot matrix itself:
\* plane 0 holds the complement, plane 1 the one-hot row
Stacked(classes, c) ==
  [rank |-> 3, rows |-> Len(classes), cols |-> c,
   a |-> [r \in DOMAIN classes |->
            <<[j \in 1..c |-> 1 - OneHotRow(classes[r], c)[j]],
              OneHotRow(classes[r], c)>>]]

Dataset(proba, y_val) == [proba |-> proba, y_val |-> y_val]

\* the validation sets of the calibrator's calls: model.predict's answer and
\* the caller's y_val
RunInputs ==
  << Dataset(Proba(<< <<27, 3>>, <<6, 24>> >>, 2), OneHot(<<0, 1>>, 2)),
     Dataset(Proba(<< <<27, 3>>, <<6, 24>> >>, 2), Stacked(<<0, 1>>, 2)),
     Dataset(Proba(<< <<12, 18>>, <<6, 24>> >>, 2), Stacked(<<0, 0>>, 2)),
     Dataset(Proba(<<>>, 2), OneHot(<<>>, 2)),
     Dataset(Proba(<<>>, 2), Stacked(<<>>, 2)),
     Dataset(Proba(<< <<33, -3>>, <<6, 24>> >>, 2), OneHot(<<0, 1>>, 2)),
     Dataset(Proba(<< <<33, -3>>, <<6, 24>> >>, 2), Stacked(<<0, 1>>, 2)),
     Dataset(Proba(<< <<27, 3>>, <<6, 24>> >>, 2), OneHot(<<0>>, 2)),
     Dataset(Proba(<< <<27, 3>>, <<6, 24>> >>, 2), Stacked(<<0>>, 2)) >>

\* a row over all the classes of MODEL_CONFIG: the given numerators, then
\* zeros
WideRow(numerators) ==
  [j \in 1..NumClassNames |-> IF j <= Len(numerators) THEN numerators[j] ELSE 0]

\* the validation sets of a model with one output per class of MODEL_CONFIG
WideInputs ==
  << Dataset(Proba(<< WideRow(<<24, 6>>), WideRow(<<6, 24>>) >>, NumClassNames),
             Stacked(<<0, 1>>, NumClassNames)) >>

\* every validation set a run can be given: data of a call is its position
AllInputs == RunInputs \o WideInputs

WideRuns == (Len(RunInputs) + 1)..Len(AllInputs)

\* the validation sets whose y_val is an N x C label matrix: the arguments of
\* the direct calls of evaluate_calibration and of the three fits
LabelledInputs == {i \in DOMAIN RunInputs : RunInputs[i].y_val.rank = 2}

\* every entry of a probability matrix lies in [0, 1]
InUnitInterval(proba) ==
  \A r \in 1..proba.rows : \A j \in 1..proba.cols :
     RatLe(<<0, 1>>, proba.a[r][j]) /\ RatLe(proba.a[r][j], <<1, 1>>)

\* the spec's valid input: N >= 1 samples, labels of the same N and C, every
\* probability in [0, 1]
ValidInput(d) ==
  /\ d.proba.rows >= 1
  /\ d.y_val.rows = d.proba.rows
  /\ d.y_val.cols = d.proba.cols
  /\ InUnitInterval(d.proba)

\* the OptimizeResults the model draws from: the trial point x and the
\* success flag
FitTemperatures ==
  {[x |-> <<1, 2>>, success |-> TRUE], [x |-> <<1, 2>>, success |-> FALSE],
   [x |-> <<-1, 1>>, success |-> TRUE]}

\* the fitted (coef_[0][0], intercept_[0]) pairs the model draws from
FitPlatts == {<< <<3, 1>>, <<-1, 1>> >>, << <<-2, 1>>, <<1, 1>> >>}

MkdirFault == [kind |-> "mkdir", at |-> 0]

\* the document has six chunks; the model lets the write fail at the first
\* chunk (the file is left empty) and at a later one (left with a prefix)
FaultPoints == {0, 3}

SaveFaults == {NoFault, OpenFault} \cup {WriteFault(k) : k \in FaultPoints}

\* an outcome of the environment is drawn only by a run that reaches the call
\* consulting it
Drawn(f, outcomes) ==
  IF f.exc = "none" THEN outcomes ELSE {CHOOSE o \in outcomes : TRUE}

\* the rows of the probability matrices evaluate_calibration is applied to:
\* both ends of [0, 1], boundaries of both binnings and interior points
EvalRows == << <<30, 0>>, <<27, 3>>, <<15, 15>>, <<8, 22>>, <<6, 24>>, <<0, 30>> >>

\* the arguments of evaluate_calibration: an N x 2 probability matrix with
\* rows among EvalRows and N x 2 one-hot labels, 1 <= N <= MaxSamples
EvalInputs ==
  UNION {{[proba |-> Proba([r \in 1..n |-> EvalRows[rows[r]]], 2),
           y_true |-> OneHot(classes, 2)] :
            rows \in [1..n -> DOMAIN EvalRows], classes \in [1..n -> {0, 1}]} :
         n \in 1..MaxSamples}

\* the same probability matrices with the labels given as the N-vector of
\* class indices
EvalIndexInputs ==
  UNION {{[proba |-> Proba([r \in 1..n |-> EvalRows[rows[r]]], 2),
           y_true |-> Vector(classes)] :
            rows \in [1..n -> DOMAIN EvalRows], classes \in [1..n -> {0, 1}]} :
         n \in 1..MaxSamples}

\* the label rows of isotonic_calibration: the one-hot rows and the row of a
\* sample whose label is zero in every column
IsoLabelRows == << <<1, 0>>, <<0, 1>>, <<0, 0>> >>

\* the arguments of isotonic_calibration: an N x 2 probability matrix with
\* rows among EvalRows and an N x 2 label matrix, 1 <= N <= MaxSamples
IsoInputs ==
  UNION {{[proba |-> Proba([r \in 1..n |-> EvalRows[rows[r]]], 2),
           y_true |-> Matrix([r \in 1..n |-> IsoLabelRows[labels[r]]], 2)] :
            rows \in [1..n -> DOMAIN EvalRows],
            labels \in [1..n -> DOMAIN IsoLabelRows]} :
         n \in 1..MaxSamples}

\* the values the fitted regression is asked for: below, inside and above
\* every training range
IsoQueries == {Rat(0, Unit), Rat(18, Unit), Rat(25, Unit), Rat(36, Unit)}

----------------------------------------------------------------------------
(* State *)

Calibrators == {"c1"}

\* most successful calibrate_model runs counted per calibrator
MaxRuns == 2

VARIABLES
  model,                \* self.model is not None, per calibrator
  calibration_params,   \* self.calibration_params, per calibrator
  calibration_history,  \* self.calibration_history, per calibrator
  file,                 \* content of results/calibration_params.json
  handles,              \* open handles of the process on that file
  ok_runs,              \* calibrate_model calls that returned, per calibrator
  call                  \* the latest call: operation, receiver, arguments, outcome

vars == <<model, calibration_params, calibration_history, file, handles, ok_runs, call>>

\* __init__
InitialParams == [temperature |-> <<1, 1>>, platt_a |-> <<1, 1>>, platt_b |-> <<0, 1>>]

\* a document an earlier process left at the path
EarlierDocument ==
  JsonChunks(CalibrationData([temperature |-> <<2, 1>>, platt_a |-> <<4, 1>>,
                              platt_b |-> <<-3, 1>>], <<>>), DocumentKeys)

\* data is the position in RunInputs of the validation set passed (0 for
\* none), or the arguments themselves; exc is "pending" until the call ends;
\* report is the OptimizeResult minimize gave during the call, if any
Call(op, self, data, exc, steps, result, report) ==
  [op |-> op, self |-> self, data |-> data, exc |-> exc, steps |-> steps,
   result |-> result, report |-> report]

\* the calibrators as constructed, with the file absent or left by an earlier
\* process
Constructed ==
  /\ model = [c \in Calibrators |-> FALSE]
  /\ calibration_params = [c \in Calibrators |-> InitialParams]
  /\ calibration_history = [c \in Calibrators |-> <<>>]
  /\ file \in {NoFile, EarlierDocument}
  /\ handles = 0
  /\ ok_runs = [c \in Calibrators |-> 0]

Init ==
  /\ Constructed
  /\ call = Call("none", "none", 0, "none", <<>>, None, None)

----------------------------------------------------------------------------
(* Operations of a calibrator *)

\* load_model: keras.models.load_model succeeds or raises; the exception is
\* re-raised
LoadModel(c) ==
  \E ok \in BOOLEAN :
    /\ model' = [model EXCEPT ![c] = IF ok THEN TRUE ELSE @]
    /\ call' = Call("load_model", c, 0, IF ok THEN "none" ELSE "OSError", <<>>, None, None)
    /\ UNCHANGED <<calibration_params, calibration_history, file, handles, ok_runs>>

\* metrics kept on the calibrator and reused: the variant of Evaluate that
\* answers a call following another evaluation with that evaluation's metrics
EvaluateCaching(c) ==
  \E i \in LabelledInputs :
  \E m \in {IF call.op = "evaluate_calibration" /\ call.exc = "none"
             THEN call.result
             ELSE EvaluateCalibration(RunInputs[i].proba, RunInputs[i].y_val)} :
    /\ call' = Call("evaluate_calibration", c, i, m.exc, <<>>, m, None)
    /\ UNCHANGED <<model, calibration_params, calibration_history, file,
                   handles, ok_runs>>

\* evaluate_calibration called with a probability matrix and a label matrix
Evaluate(c) ==
  \E i \in LabelledInputs :
  \E m \in {EvaluateCalibration(RunInputs[i].proba, RunInputs[i].y_val)} :
    /\ call' = Call("evaluate_calibration", c, i, m.exc, <<>>, m, None)
    /\ UNCHANGED <<model, calibration_params, calibration_history, file,
                   handles, ok_runs>>

\* temperature_scaling called directly: it returns the temperature and
\* stores nothing
FitTemperature(c) ==
  \E i \in LabelledInputs, t \in FitTemperatures :
  \E r \in {TemperatureScaling(RunInputs[i].proba, RunInputs[i].y_val, t)} :
    /\ call' = Call("temperature_scaling", c, i, r.exc, <<>>,
                     IF r.exc = "none" THEN [temperature |-> r.temperature] ELSE None,
                     IF r.exc = "none" THEN t ELSE None)
    /\ UNCHANGED <<model, calibration_params, calibration_history, file,
                   handles, ok_runs>>

\* platt_scaling called directly: it returns the pair and stores nothing;
\* report is what it handed to lr.fit
FitPlatt(c) ==
  \E i \in LabelledInputs, p \in FitPlatts :
  \E r \in {PlattScaling(RunInputs[i].proba, RunInputs[i].y_val, p)} :
    /\ call' = Call("platt_scaling", c, i, r.exc, <<>>,
                     IF r.exc = "none"
                     THEN [platt_a |-> r.platt_a, platt_b |-> r.platt_b] ELSE None,
                     r.fit)
    /\ UNCHANGED <<model, calibration_params, calibration_history, file,
                   handles, ok_runs>>

\* isotonic_calibration called directly
FitIsotonic(c) ==
  \E i \in LabelledInputs :
  \E r \in {IsotonicCalibration(RunInputs[i].proba, RunInputs[i].y_val)} :
    /\ call' = Call("isotonic_calibration", c, i, r.exc, <<>>, r.isotonic, None)
    /\ UNCHANGED <<model, calibration_params, calibration_history, file,
                   handles, ok_runs>>

\* save_calibration_params called directly
Save(c) ==
  \E fault \in SaveFaults :
  \E saved \in {SaveCalibrationParams(
                   [content |-> file, handles |-> handles, exc |-> "none"],
                   calibration_params[c], calibration_history[c], fault)} :
    /\ file' = saved.content
    /\ handles' = saved.handles
    /\ call' = Call("save_calibration_params", c, 0, saved.exc, <<>>, None, None)
    /\ UNCHANGED <<model, calibration_params, calibration_history, ok_runs>>

\* a parameter dictionary held by the class and shared by its instances: the
\* variant of StoreParams that writes through to every calibrator
StoreParamsShared(all, c, params) == [k \in DOMAIN all |-> params]

\* self.calibration_params[...] = ...: the dictionary __init__ allocated for
\* this calibrator takes the values, every other calibrator keeps its own
StoreParams(all, c, params) == [all EXCEPT ![c] = params]

\* calibrate_model: the statements in program order, each on the frame the
\* one before it left; a statement that raises ends the run.  The validation
\* set is one of inputs; the optimizer, the regression and the file system
\* answer with one of temperatures, platts and faults.
CalibrateWith(c, inputs, temperatures, platts, faults) ==
  /\ ok_runs[c] < MaxRuns
  /\ \E i \in inputs, load_ok \in (IF model[c] THEN {TRUE} ELSE BOOLEAN) :
     \E f1 \in {StepLoadModel(Frame(model[c], calibration_params[c],
                                    calibration_history[c], file, handles),
                              load_ok)} :
     \E f2 \in {StepPrepare(f1, AllInputs[i].proba, AllInputs[i].y_val)} :
     \E f3 \in {StepEvaluateOriginal(f2)} :
     \E temperature \in Drawn(f3, temperatures) :
     \E f4 \in {StepTemperature(f3, temperature)} :
     \E f5 \in {StepApplyTemperature(f4)} :
     \E f6 \in {StepEvaluateTemperature(f5)} :
     \E platt \in Drawn(f6, platts) :
     \E f7 \in {StepPlatt(f6, platt)} :
     \E f8 \in {StepIsotonic(f7)} :
     \E fault \in Drawn(f8, faults) :
     \E f9 \in {StepSave(f8, fault)} :
     \E savefig_ok \in Drawn(f9, BOOLEAN) :
     \E f10 \in {StepPlot(f9, savefig_ok)} :
     \E f \in {StepReturn(f10, c)} :
       /\ model' = [model EXCEPT ![c] = f.model]
       /\ calibration_params' = StoreParams(calibration_params, c, f.params)
       /\ calibration_history' = [calibration_history EXCEPT ![c] = f.history]
       /\ file' = f.fs.content
       /\ handles' = f.fs.handles
       /\ ok_runs' = [ok_runs EXCEPT ![c] = IF f.exc = "none" THEN @ + 1 ELSE @]
       /\ call' = Call("calibrate_model", c, i, f.exc, f.steps, f.result, f.report)

\* calibrate_model on any of the validation sets, in any environment
Calibrate(c) ==
  CalibrateWith(c, DOMAIN RunInputs, FitTemperatures, FitPlatts,
                SaveFaults \cup {MkdirFault})

Next ==
  \E c \in Calibrators :
    \/ LoadModel(c)
    \/ Evaluate(c)
    \/ FitTemperature(c)
    \/ FitPlatt(c)
    \/ FitIsotonic(c)
    \/ Save(c)
    \/ Calibrate(c)

Spec == Init /\ [][Next]_vars

----------------------------------------------------------------------------
(* Two calibrators constructed for two models, their operations interleaved *)

TwoCalibrators == {"c1", "c2"}

InitTwo ==
  /\ model = [c \in TwoCalibrators |-> FALSE]
  /\ calibration_params = [c \in TwoCalibrators |-> InitialParams]
  /\ calibration_history = [c \in TwoCalibrators |-> <<>>]
  /\ file = NoFile
  /\ handles = 0
  /\ ok_runs = [c \in TwoCalibrators |-> 0]
  /\ call = Call("none", "none", 0, "none", <<>>, None, None)

\* the validation sets calibrate_model returns a result for
ReturningInputs ==
  {i \in DOMAIN RunInputs :
     /\ RunInputs[i].y_val.rank = 3
     /\ ValidInput(RunInputs[i])
     /\ PlattScaling(RunInputs[i].proba, ArgMaxAxis1(RunInputs[i].y_val),
                     CHOOSE p \in FitPlatts : TRUE).exc = "none"}

\* each calibrator loads its model and calibrates it on such a validation
\* set, with an optimizer that converges and a file system without faults
NextTwo ==
  \E c \in TwoCalibrators :
    \/ LoadModel(c)
    \/ CalibrateWith(c, ReturningInputs, {t \in FitTemperatures : t.success},
                     FitPlatts, {NoFault})


SpecTwo == InitTwo /\ [][NextTwo]_vars

----------------------------------------------------------------------------
(* calibrate_model of a model with one output per class of MODEL_CONFIG *)

\* the calibrator is given the validation set of such a model, or one of a
\* two-class model; the optimizer converges; the file system lets the save
\* through or refuses the open
NextPlot ==
  \E c \in Calibrators :
    \/ LoadModel(c)
    \/ CalibrateWith(c, ReturningInputs \cup WideRuns,
                     {t \in FitTemperatures : t.success}, FitPlatts,
                     {NoFault, OpenFault})

SpecPlot == Init /\ [][NextPlot]_vars

----------------------------------------------------------------------------
(* evaluate_calibration as a function of its arguments *)

\* a caller holds a probability matrix and its labels, one-hot or as indices
InitEval ==
  /\ Constructed
  /\ \/ \E c \in Calibrators, d \in EvalInputs :
          call = Call("evaluate_calibration", c, d, "pending", <<>>, None, None)
     \/ \E c \in Calibrators, d \in EvalIndexInputs :
          call = Call("evaluate_calibration", c, d, "pending", <<>>, None, None)

\* the pending call runs
EvaluateArguments ==
  /\ call.exc = "pending"
  /\ \E m \in {EvaluateCalibration(call.data.proba, call.data.y_true)} :
       call' = [call EXCEPT !.exc = m.exc, !.result = m]
  /\ UNCHANGED <<model, calibration_params, calibration_history, file,
                 handles, ok_runs>>

NextEval == EvaluateArguments

SpecEval == InitEval /\ [][NextEval]_vars

----------------------------------------------------------------------------
(* isotonic_calibration as a function of its arguments, and the regression
   it returns *)

InitIso ==
  /\ Constructed
  /\ \E c \in Calibrators, d \in IsoInputs :
       call = Call("isotonic_calibration", c, d, "pending", <<>>, None, None)

\* the pending call runs
FitIsotonicArguments ==
  /\ call.op = "isotonic_calibration"
  /\ call.exc = "pending"
  /\ \E r \in {IsotonicCalibration(call.data.proba, call.data.y_true)} :
       call' = [call EXCEPT !.exc = r.exc, !.result = r.isotonic]
  /\ UNCHANGED <<model, calibration_params, calibration_history, file,
                 handles, ok_runs>>

\* the caller asks the returned regression for the value at t
PredictIsotonic(t) ==
  /\ call.op = "isotonic_calibration"
  /\ call.exc = "none"
  /\ call' = Call("predict", call.self, [isotonic |-> call.result, t |-> t],
                   "none", <<>>, [value |-> IsotonicPredict(call.result, t)], None)
  /\ UNCHANGED <<model, calibration_params, calibration_history, file,
                 handles, ok_runs>>

NextIso ==
  \/ FitIsotonicArguments
  \/ \E t \in IsoQueries : PredictIsotonic(t)

SpecIso == InitIso /\ [][NextIso]_vars

----------------------------------------------------------------------------
(* Properties of calibrate_model *)

\* the latest call is a calibrate_model call that has ended
LastRun == call.op = "calibrate_model"

\* the validation set of the latest calibrate_model call
LastInput == RunInputs[call.data]

\* s is a prefix of t
IsPrefix(s, t) == Len(s) <= Len(t) /\ SubSeq(t, 1, Len(s)) = s

\* the steps of the latest run after the optional load of the model
StepsAfterLoad ==
  IF call.steps # <<>> /\ Head(call.steps) = "load_model"
  THEN Tail(call.steps) ELSE call.steps

FitSteps == {"temperature_scaling", "platt_scaling", "isotonic_calibration"}

\* C1: a calibrate_model call on valid input (N >= 1, an N x C probability
\* matrix with entries in [0, 1], N x C one-hot labels) with the model loaded
\* and no failure of the file system returns, and its result holds the
\* original metrics, the temperature metrics, the parameters and the
\* improvement.
C1_ValidRunReturns ==
  (/\ LastRun
   /\ LastInput.y_val.rank = 2
   /\ ValidInput(LastInput)
   /\ model[call.self]
   /\ call.exc # "OSError")
  => /\ call.exc = "none"
     /\ DOMAIN call.result = {"original_metrics", "temperature_metrics",
                              "calibration_params", "improvement"}

\* C2: the steps of a calibrate_model run are an initial stretch of the
\* program order (baseline evaluation, temperature fit, its application,
\* post-fit evaluation, Platt fit, isotonic fit, save, plot, return): each
\* step at most once, in this order, and the save only after all three fits.
C2_StepsInProgramOrder ==
  LastRun =>
    /\ IsPrefix(StepsAfterLoad, ProgramOrder)
    /\ (\E n \in DOMAIN call.steps : call.steps[n] = "save_calibration_params")
         => \A fit \in FitSteps :
              \E n \in DOMAIN call.steps : call.steps[n] = fit

\* a run that went through every step, persistence included
C2_CompleteRun ==
  /\ LastRun
  /\ call.exc = "none"
  /\ \E n \in DOMAIN call.steps : call.steps[n] = "save_calibration_params"
  /\ \E n \in DOMAIN call.steps : call.steps[n] = "evaluate_temperature"

\* C3: after k calibrate_model calls of a calibrator have returned, its
\* calibration_history has length k.
C3_HistoryCountsRuns ==
  \A c \in Calibrators : Len(calibration_history[c]) = ok_runs[c]

\* C4: calibration_history is append-only: every step leaves the earlier
\* history a prefix of the later one, and a step of any operation other than
\* calibrate_model leaves it unchanged.
C4_HistoryAppendOnly ==
  [][\A c \in Calibrators :
       /\ IsPrefix(calibration_history[c], calibration_history'[c])
       /\ call'.op # "calibrate_model"
            => calibration_history'[c] = calibration_history[c]]_vars

\* a second calibrate_model run has returned on a calibrator
C4_SecondRunReturned ==
  /\ LastRun
  /\ call.exc = "none"
  /\ ok_runs[call.self] >= 2

\* C5: after a calibrate_model call has returned, the file parses to exactly
\* the keys temperature, platt_a, platt_b and calibration_history, with the
\* values of the calibrator's parameters and history, and nothing else.
C5_DocumentIsTheRunsParameters ==
  (LastRun /\ call.exc = "none") =>
    LET doc == JsonParse(file)
    IN /\ DOMAIN doc = {"temperature", "platt_a", "platt_b", "calibration_history"}
       /\ doc.temperature = calibration_params[call.self].temperature
       /\ doc.platt_a = calibration_params[call.self].platt_a
       /\ doc.platt_b = calibration_params[call.self].platt_b
       /\ doc.calibration_history = calibration_history[call.self]

\* a run has returned with a fitted temperature and has left a complete
\* document other than the one an earlier process wrote
C5_EarlierDocumentReplaced ==
  /\ LastRun
  /\ call.exc = "none"
  /\ calibration_params[call.self].temperature = <<1, 2>>
  /\ file # EarlierDocument
  /\ JsonWellFormed(file)

\* C6: the file is never left truncated, partial or corrupt: it is absent or
\* a complete document.
C6_NoPartialDocument == file = NoFile \/ JsonWellFormed(file)

\* C7: no state after a call has the file handle still open.
C7_HandleClosed == handles = 0

\* a save whose serialization raised after the file was opened
C7_DumpRaised ==
  /\ call.op \in {"save_calibration_params", "calibrate_model"}
  /\ call.exc = "OSError"
  /\ file = <<>>

\* C8: a calibrate_model call on invalid input (shape mismatch, empty set, or
\* a probability outside [0, 1]) fails with InvalidInput before any fit
\* begins and leaves parameters, history and file unchanged.
C8_InvalidInputRejected ==
  [][(/\ call'.op = "calibrate_model"
      /\ ~ValidInput(RunInputs[call'.data])
      /\ model'[call'.self])
     => /\ call'.exc = "InvalidInput"
        /\ \A n \in DOMAIN call'.steps : call'.steps[n] \notin FitSteps
        /\ calibration_params' = calibration_params
        /\ calibration_history' = calibration_history
        /\ file' = file]_vars

----------------------------------------------------------------------------
(* Properties of evaluate_calibration *)

\* the bins (0-based) of a binning with n_bins bins that hold the entry p
BinsHolding(p, n_bins) == {k \in 0..(n_bins - 1) : InBin(p, k, n_bins)}

\* C9: in the ECE binning and in the reliability binning every entry of a
\* probability matrix with entries in [0, 1] falls into exactly one bin.
C9_EveryEntryInOneBin ==
  (call.op = "evaluate_calibration" /\ call.exc = "none") =>
    \A e \in 1..Size(call.data.proba) :
      /\ Cardinality(BinsHolding(Entry(call.data.proba, e), EceBins)) = 1
      /\ Cardinality(BinsHolding(Entry(call.data.proba, e), ReliabilityBins)) = 1

\* C10: the bin sizes of the reliability data sum to N * C, and every
\* emitted bin size is at least 1.
C10_BinSizesSumToEntries ==
  (call.op = "evaluate_calibration" /\ call.exc = "none") =>
    LET bin_sizes == call.result.reliability.bin_sizes
    IN /\ IntSum(bin_sizes) = Size(call.data.proba)
       /\ \A b \in DOMAIN bin_sizes : bin_sizes[b] >= 1

\* the latest call is an evaluate_calibration call that returned metrics for
\* one-hot labels
Evaluated ==
  /\ call.op = "evaluate_calibration"
  /\ call.exc = "none"
  /\ call.data.y_true.rank = 2

\* C11: for valid input (entries in [0, 1], rows summing to 1, one-hot
\* labels) the ECE that evaluate_calibration returns lies in [0, 1].
C11_EceInUnitInterval ==
  Evaluated => RatLe(<<0, 1>>, call.result.ece) /\ RatLe(call.result.ece, <<1, 1>>)

\* C12: the ECE is the sum over the non-empty bins of
\* bin_size * |bin_accuracy - bin_confidence| divided by N * C, the number of
\* entries of the probability matrix.
C12_EceOverEntries ==
  Evaluated =>
    LET proba == call.data.proba
        y_true == call.data.y_true
        term(k) ==
          LET s == BinStat(proba, y_true, k, EceBins)
          IN IF s.bin_size = 0 THEN <<0, 1>>
             ELSE RatMul(RatOfInt(s.bin_size),
                         RatAbs(RatSub(s.bin_accuracy, s.bin_confidence)))
    IN call.result.ece =
         RatDivInt(RatSum([k \in 1..EceBins |-> term(k - 1)]), Size(proba))

\* every row of the probability matrix is the one-hot row of its label
PredictionsMatchLabels ==
  \A r \in 1..call.data.proba.rows : \A j \in 1..call.data.proba.cols :
     call.data.proba.a[r][j] = RatOfInt(call.data.y_true.a[r][j])

\* C13: the overall Brier score is >= 0, and it is 0 exactly when every row
\* of probabilities equals the one-hot row of its label.
C13_BrierZeroIffExact ==
  Evaluated =>
    /\ RatLe(<<0, 1>>, call.result.brier_score)
    /\ call.result.brier_score = <<0, 1>> <=> PredictionsMatchLabels

\* an evaluation of two samples predicted exactly, and its Brier score 0
C13_ExactPredictions ==
  /\ Evaluated
  /\ call.data.proba.rows >= 2
  /\ PredictionsMatchLabels
  /\ call.result.brier_score = <<0, 1>>

\* the spec's scenario: probabilities [[0.9, 0.1], [0.2, 0.8]], classes [0, 1]
ScenarioInput ==
  [proba |-> Proba(<< <<27, 3>>, <<6, 24>> >>, 2), y_true |-> OneHot(<<0, 1>>, 2)]

\* C14: brier_scores_per_class has one entry per class, the mean over the
\* samples of (p[i][k] - y[i][k])^2; the overall Brier score is the mean of
\* these entries; for the scenario it is 0.025.
C14_BrierPerClassThenMean ==
  Evaluated =>
    LET proba == call.data.proba
        y_true == call.data.y_true
        per_class == call.result.brier_scores_per_class
        sq(r, k) == RatMul(RatSub(proba.a[r][k], RatOfInt(y_true.a[r][k])),
                           RatSub(proba.a[r][k], RatOfInt(y_true.a[r][k])))
    IN /\ Len(per_class) = proba.cols
       /\ \A k \in 1..proba.cols :
            per_class[k] =
              RatDivInt(RatSum([r \in 1..proba.rows |-> sq(r, k)]), proba.rows)
       /\ call.result.brier_score = RatDivInt(RatSum(per_class), proba.cols)
       /\ call.data = ScenarioInput => call.result.brier_score = <<1, 40>>

\* the scenario has been evaluated
C14_ScenarioEvaluated ==
  /\ Evaluated
  /\ call.data = ScenarioInput
  /\ call.result.brier_scores_per_class = << <<1, 40>>, <<1, 40>> >>

\* C15: evaluate_calibration called with the labels as class indices returns
\* the metrics it returns for the equivalent one-hot labels.
C15_IndexLabelsAsOneHot ==
  (/\ call.op = "evaluate_calibration"
   /\ call.exc # "pending"
   /\ call.data.y_true.rank = 1)
  => LET m == EvaluateCalibration(call.data.proba,
                                  OneHot(call.data.y_true.a, call.data.proba.cols))
     IN call.exc = m.exc /\ call.result = m

----------------------------------------------------------------------------
(* Properties of the fits and of evaluate_calibration among the operations *)

\* C16: evaluate_calibration is a function of its two arguments alone: in
\* whatever state it is called it returns the metrics of those arguments, a
\* call right after a call on the same arguments returns the same metrics,
\* and a call leaves model, parameters, history, file and handles unchanged.
C16_EvaluateIsPure ==
  [][call'.op = "evaluate_calibration" =>
       /\ LET m == EvaluateCalibration(RunInputs[call'.data].proba,
                                       RunInputs[call'.data].y_val)
          IN call'.exc = m.exc /\ call'.result = m
       /\ (call.op = "evaluate_calibration" /\ call.data = call'.data)
            => call'.result = call.result
       /\ UNCHANGED <<model, calibration_params, calibration_history, file,
                      handles>>]_vars

\* an evaluation that returned metrics on a calibrator whose earlier run has
\* fitted a temperature and written the file
C16_EvaluatedAfterRun ==
  /\ call.op = "evaluate_calibration"
  /\ call.exc = "none"
  /\ ok_runs[call.self] >= 1
  /\ calibration_params[call.self].temperature # StartTemperature
  /\ JsonWellFormed(file)

\* C17: the temperature of every calibrator's parameters lies within the
\* optimizer bounds [0.1, 10.0].
C17_TemperatureInBounds ==
  \A c \in Calibrators : InBounds(calibration_params[c].temperature)

\* a run that failed after its temperature fit, leaving a fitted temperature
\* other than the initial one in the parameters
C17_FittedThenFailed ==
  /\ LastRun
  /\ call.exc # "none"
  /\ call.report # None
  /\ calibration_params[call.self].temperature # StartTemperature

\* the arrays the temperature fit of the latest call worked on
FitProba == RunInputs[call.data].proba

FitLabels ==
  IF LastRun THEN ArgMaxAxis1(RunInputs[call.data].y_val)
  ELSE RunInputs[call.data].y_val

\* the temperature the fit of the latest call returned
FittedTemperature ==
  IF LastRun THEN calibration_params[call.self].temperature
  ELSE call.result.temperature

C19_EmptyFitRejected ==
  (call.op = "temperature_scaling" /\ RunInputs[call.data].proba.rows = 0)
  => call.exc = "InvalidInput" /\ call.result = None

\* C20: when the optimizer of the temperature fit reports no convergence, the
\* call ends with FitDidNotConverge: it returns no temperature, and the
\* parameters and the file stay as they were.
C20_NonConvergenceReported ==
  [][(/\ call'.op \in {"temperature_scaling", "calibrate_model"}
      /\ call'.report # None
      /\ ~call'.report.success)
     => /\ call'.exc = "FitDidNotConverge"
        /\ call'.result = None
        /\ calibration_params' = calibration_params
        /\ file' = file]_vars

----------------------------------------------------------------------------
(* Properties of the Platt fit *)

\* the latest run ended in the statement named step
EndedIn(step) ==
  /\ LastRun
  /\ call.steps # <<>>
  /\ call.steps[Len(call.steps)] = step

\* C21: a calibrate_model run whose Platt fit meets degenerate data does not
\* end with an unhandled exception of the Platt step: the step reports
\* FitDidNotConverge.
C21_DegeneratePlattReported ==
  (/\ EndedIn("platt_scaling")
   /\ PlattDegenerate(LastInput.proba, ArgMaxAxis1(LastInput.y_val)))
  => call.exc = "FitDidNotConverge"

\* C22: the target platt_scaling hands to the regression is the correctness
\* of each sample (1 where the index of the maximum is the true class), and
\* the feature is the sample's maximum probability.
C22_PlattTargetIsCorrectness ==
  (call.op = "platt_scaling" /\ call.report # None)
  => /\ call.report.y_pred_max = PlattFeature(RunInputs[call.data].proba)
     /\ call.report.target = Correctness(RunInputs[call.data].proba,
                                          RunInputs[call.data].y_val)

----------------------------------------------------------------------------
(* Properties of the result of calibrate_model *)

\* the latest run returned a result
Returned == LastRun /\ call.exc = "none"

\* the labels calibrate_model works on
RunLabels == ArgMaxAxis1(LastInput.y_val)

\* the metrics of the raw probabilities of the latest run
RawMetrics == EvaluateCalibration(LastInput.proba, RunLabels)

\* the metrics of the raw probabilities rescaled with the temperature the
\* run has fitted
RescaledMetrics ==
  EvaluateCalibration(
    ApplyTemperatureScaling(LastInput.proba, calibration_params[call.self].temperature),
    RunLabels)

\* C23: the temperature metrics and the improvement a run reports are those
\* of the raw probabilities, the labels and the fitted temperature alone,
\* whatever the Platt fit (and the isotonic fit) of the run returned.
C23_ReportIgnoresPlatt ==
  Returned =>
    /\ call.result.temperature_metrics = RescaledMetrics
    /\ call.result.improvement.brier_score =
         RatSub(RawMetrics.brier_score, RescaledMetrics.brier_score)
    /\ call.result.improvement.ece = RatSub(RawMetrics.ece, RescaledMetrics.ece)

\* a run that returned with a fitted temperature and the second of the Platt
\* pairs
C23_ReturnedWithOtherPlatt ==
  /\ Returned
  /\ calibration_params[call.self].temperature # StartTemperature
  /\ calibration_params[call.self].platt_a = <<-2, 1>>

\* C24: the improvement is the original metric minus the temperature metric,
\* for the Brier score and for the ECE, so it is positive exactly when the
\* score went down; the original metrics are those of the raw probabilities.
C24_ImprovementIsOriginalMinusTemperature ==
  Returned =>
    LET r == call.result
    IN /\ r.original_metrics = RawMetrics
       /\ r.improvement.brier_score =
            RatSub(r.original_metrics.brier_score, r.temperature_metrics.brier_score)
       /\ r.improvement.ece =
            RatSub(r.original_metrics.ece, r.temperature_metrics.ece)
       /\ RatLt(<<0, 1>>, r.improvement.brier_score)
            <=> RatLt(r.temperature_metrics.brier_score, r.original_metrics.brier_score)
       /\ RatLt(<<0, 1>>, r.improvement.ece)
            <=> RatLt(r.temperature_metrics.ece, r.original_metrics.ece)

\* a run that returned a positive Brier improvement
C24_BrierImproved ==
  /\ Returned
  /\ RatLt(<<0, 1>>, call.result.improvement.brier_score)

\* the parameters seen through a result: those of the dictionary the result
\* refers to, as it is in params
ParamsThrough(result, params) == params[result.calibration_params.params_of]

\* C27: the parameters seen through a result a run has returned are the same
\* after the next calibrate_model call on that calibrator as they were when
\* the result was returned.
C27_ResultIsSnapshot ==
  [][(/\ Returned
      /\ call'.op = "calibrate_model"
      /\ call'.self = call.self)
     => ParamsThrough(call.result, calibration_params')
          = ParamsThrough(call.result, calibration_params)]_vars

\* the run got past the temperature fit
PastTemperatureFit(steps) ==
  \E n \in DOMAIN steps : steps[n] = "apply_temperature_scaling"

\* C28: a calibrate_model call that raises after its temperature fit leaves
\* calibration_params as they were before the call.
C28_FailedRunKeepsParams ==
  [][(/\ call'.op = "calibrate_model"
      /\ call'.exc # "none"
      /\ PastTemperatureFit(call'.steps))
     => calibration_params' = calibration_params]_vars

\* the document save_calibration_params writes for the calibrator c
DocumentOf(c) ==
  JsonChunks(CalibrationData(calibration_params[c], calibration_history[c]),
             DocumentKeys)

\* the position of the step named step in the latest run (0 if not taken)
Position(step) ==
  IF \E n \in DOMAIN call.steps : call.steps[n] = step
  THEN CHOOSE n \in DOMAIN call.steps : call.steps[n] = step
  ELSE 0

\* C29: in a calibrate_model run the save comes before the plot and the
\* plot is the last step that can fail: a run that has plotted has saved
\* before, a run that got past the plot returns, and a run whose plot raised
\* returns no result while the file holds the document of the parameters the
\* run has fitted.
C29_SavedBeforePlotFails ==
  LastRun =>
    /\ Position("plot_calibration_curves") > 0 =>
         /\ Position("save_calibration_params") > 0
         /\ Position("save_calibration_params") < Position("plot_calibration_curves")
    /\ Position("return") > 0 => call.exc = "none"
    /\ (EndedIn("plot_calibration_curves") /\ call.exc # "none") =>
         /\ call.result = None
         /\ file = DocumentOf(call.self)
         /\ AllInputs[call.data].proba.cols >= NumClassNames
              => call.exc = "IndexError"

\* a run on the outputs of a model of all the classes of MODEL_CONFIG has
\* fitted a temperature and saved, and its plot raised on the class name
\* without separator
C29_PlotRaisedOnClassName ==
  /\ EndedIn("plot_calibration_curves")
  /\ call.exc = "IndexError"
  /\ call.data \in WideRuns
  /\ calibration_params[call.self].temperature # StartTemperature
  /\ file = DocumentOf(call.self)

\* the step named step is among steps
Took(steps, step) == \E n \in DOMAIN steps : steps[n] = step

\* C30: a calibrate_model call loads the model only when none is loaded, so
\* a loaded model stays loaded and is not loaded again; a call whose load
\* fails ends there with the exception, the model still unloaded, and
\* parameters, history and file as they were.
C30_LoadOnceAndFailClean ==
  [][call'.op = "calibrate_model" =>
       /\ Took(call'.steps, "load_model") <=> ~model[call'.self]
       /\ model[call'.self] => model'[call'.self]
       /\ (Took(call'.steps, "load_model") /\ ~model'[call'.self]) =>
            /\ call'.exc = "OSError"
            /\ call'.steps = <<"load_model">>
            /\ call'.result = None
            /\ calibration_params' = calibration_params
            /\ calibration_history' = calibration_history
            /\ file' = file]_vars

\* a run on a calibrator whose model an earlier call had loaded: it went
\* through its steps without loading
C30_RunWithoutLoad ==
  /\ LastRun
  /\ call.steps # <<>>
  /\ ~Took(call.steps, "load_model")
  /\ ok_runs[call.self] >= 1

----------------------------------------------------------------------------
(* Properties of the isotonic fit *)

\* C25: the regression isotonic_calibration returns is non-decreasing over
\* its knots, and a value outside the training range is mapped to the value
\* of the nearest end knot.
C25_IsotonicMonotoneAndClipped ==
  /\ (call.op = "isotonic_calibration" /\ call.exc = "none") =>
       LET k == call.result.knots
       IN \A i \in DOMAIN k : \A j \in DOMAIN k :
            RatLe(k[i].x, k[j].x) => RatLe(k[i].y, k[j].y)
  /\ call.op = "predict" =>
       LET k == call.data.isotonic.knots
       IN /\ RatLt(call.data.t, k[1].x) => call.result.value = k[1].y
          /\ RatLt(k[Len(k)].x, call.data.t)
               => call.result.value = k[Len(k)].y

\* a fit on samples whose targets fall as the feature rises (the regression
\* has pooled them)
C25_ViolatorsPooled ==
  /\ call.op = "isotonic_calibration"
  /\ call.exc = "none"
  /\ \E r \in 1..call.data.proba.rows : \E q \in 1..call.data.proba.rows :
       /\ RatLt(MaxRow(call.data.proba.a[r]), MaxRow(call.data.proba.a[q]))
       /\ MaxLabel(call.data.y_true.a[r]) > MaxLabel(call.data.y_true.a[q])

----------------------------------------------------------------------------
(* Properties of two calibrators *)

\* C26: an operation on one calibrator leaves the parameters and the history
\* of every other calibrator as they were.
C26_CalibratorsIndependent ==
  [][\A c \in TwoCalibrators :
       c # call'.self =>
         /\ calibration_params'[c] = calibration_params[c]
         /\ calibration_history'[c] = calibration_history[c]]_vars

\* both calibrators have fitted parameters, and they differ
C26_BothFitted ==
  /\ calibration_params["c1"] # InitialParams
  /\ calibration_params["c2"] # InitialParams
  /\ calibration_params["c1"] # calibration_params["c2"]

====
